---- MODULE Spec2Model ----
(***************************************************************************)
(* A model of the "eco" Django project: the login app (login/views.py),    *)
(* the register app (register/views.py) and the dashboard app              *)
(* (dashboard/models.py, dashboard/views.py, dashboard/admin.py).          *)
(*                                                                         *)
(* The state is the relational store (Organization, Device, Alert,         *)
(* Measurement rows), the browser's session as the session store holds it, *)
(* the requests in flight with their own copy of the session, and the      *)
(* response to the last request.  There is one action per view.            *)
(***************************************************************************)
EXTENDS Integers, Sequences, FiniteSets, TLC

VARIABLES
    organizations,  \* Organization rows: id -> [name, email, password]
    devices,        \* Device rows: id -> [organization_id, category, zone, deleted_at]
    alertRows,      \* Alert rows in creation order: <<[id, device, alert_type]>>
    measurementRows,\* Measurement rows in creation order: <<[id, device]>>
    nextId,         \* the store's AutoField counters, one per table
    session,        \* the session store's data for the browser's session key
    reqs,           \* requests in flight: request -> [view, pc, session, modified]
    resp            \* the response to the last completed request

vars == <<organizations, devices, alertRows, measurementRows, nextId, session, reqs, resp>>

store == <<organizations, devices, alertRows, measurementRows, nextId>>

----------------------------------------------------------------------------
(* Bounds of the model *)

MaxOrgs == 2            \* Organization rows ever created
MaxDevices == 2         \* Device rows ever created
MaxAlerts == 3          \* Alert rows ever created by the alerting path
MaxMeasurements == 1    \* Measurement rows ever created by the ingestion path
MaxPageAlerts == 30     \* Alert rows of a populated store (pagination)
MaxPageMeasurements == 70  \* Measurement rows of a populated store (pagination)
MaxRequests == 2        \* concurrent requests on the one session
MaxIsolationAlerts == 2   \* alerts in the specification of tenant isolation

(* Program constants *)

NULL == 0               \* a null foreign key / a missing session value (falsy, no row has id 0)
ALERTS_PER_PAGE == 20
MEASUREMENTS_PER_PAGE == 50
RECENT_LIMIT == 10
PREVIEW_LIMIT == 50

(* Input alphabets *)

Names == {"A", "B"}
Emails == {"a@x", "b@x"}
Passwords == {<<"p">>, <<"q">>}     \* raw passwords, as strings of symbols
Salts == {"s1"}
Methods == {"GET", "POST"}

\* Category rows (id -> name).  Categories 1 and 2 share a display name,
\* category 3 has an empty name.
CategoryName == [c \in 1..3 |-> CASE c = 1 -> "HVAC" [] c = 2 -> "HVAC" [] OTHER -> ""]
CategoryIds == DOMAIN CategoryName

ZoneName == [z \in 1..1 |-> "Planta"]
ZoneIds == DOMAIN ZoneName

\* Alert.alert_type is a CharField: its choices are enforced by forms only.
AlertTypes == {"MAINTENANCE", "maintenance", "HIGH_CONSUMPTION"}

\* django.contrib.auth users: u0 has no organization; u1 has a profile whose
\* organization is Organization 1 and a direct organization field (2).
Users == [u0 |-> [profile |-> NULL, organization |-> NULL],
          u1 |-> [profile |-> 1, organization |-> 2]]
UserIds == DOMAIN Users

----------------------------------------------------------------------------
(* Generic helpers *)

RECURSIVE SumOver(_, _)
SumOver(f, S) == IF S = {} THEN 0
                 ELSE LET k == CHOOSE k \in S : TRUE IN f[k] + SumOver(f, S \ {k})

\* The sum of a mapping's values.
SumValues(f) == SumOver(f, DOMAIN f)

\* All orderings of a finite set, as sequences.
Orderings(S) == {s \in [1..Cardinality(S) -> S] : \A i, j \in DOMAIN s : i # j => s[i] # s[j]}

Reverse(s) == [i \in 1..Len(s) |-> s[Len(s) + 1 - i]]

Min(a, b) == IF a < b THEN a ELSE b

EmptyDict == [k \in {} |-> 0]

----------------------------------------------------------------------------
(* The session: a dictionary *)

SessionKeys == {"organization_id", "organization_name", "is_logged_in"}
AuthKey == "_auth_user_id"

\* request.session.get(k, default)
SessionGet(s, k, default) == IF k \in DOMAIN s THEN s[k] ELSE default

\* request.session[k] = v
SessionSet(s, k, v) == [x \in DOMAIN s \cup {k} |-> IF x = k THEN v ELSE s[x]]

\* if k in request.session: del request.session[k]
SessionDelIfPresent(s, k) == [x \in DOMAIN s \ {k} |-> s[x]]

\* request.session.flush()
SessionFlush(s) == EmptyDict

----------------------------------------------------------------------------
(* Password hashing (django.contrib.auth.hashers) *)

\* make_password(raw): an encoded string <algorithm>$<salt>$<digest of salt and raw>
make_password(raw, salt) == <<"pbkdf2_sha256", salt, "digest">> \o raw

\* check_password that only recognises the algorithm of the stored value.
check_password_AlgorithmOnly(raw, encoded) ==
    /\ Len(encoded) >= 3
    /\ encoded[1] = "pbkdf2_sha256"

\* check_password(raw, encoded): re-hash raw with encoded's salt and compare;
\* a stored value that is no encoded hash never verifies.
check_password(raw, encoded) ==
    /\ Len(encoded) >= 3
    /\ encoded[1] = "pbkdf2_sha256"
    /\ encoded = make_password(raw, encoded[2])

----------------------------------------------------------------------------
(* Responses *)

MSG_WRONG_PASSWORD == "Contraseña incorrecta"
MSG_NO_ORGANIZATION == "No existe una organización con ese correo electrónico"
MSG_LOGIN_REQUIRED == "Debes iniciar sesión para acceder a esta página"
MSG_INVALID_SESSION == "Sesión inválida. Por favor, inicia sesión nuevamente."

NoData == <<>>

\* kind: "redirect" (target: a url name), "render" (target: a template),
\* "http404", "http405".  tenant: the organization id the view queried with
\* (NULL when it ran no tenant query).
Response(view, request, kind, target, error, tenant, data) ==
    [view |-> view, request |-> request, kind |-> kind, target |-> target,
     error |-> error, tenant |-> tenant, data |-> data]

NoRequestsInFlight == \A r \in DOMAIN reqs : reqs[r].pc = "idle"

----------------------------------------------------------------------------
(* login/views.py *)

\* Organization.objects.get(email=email): the ids of the matching rows
\* (email is unique, so at most one).
OrganizationsByEmail(email) == {o \in DOMAIN organizations : organizations[o].email = email}

\* The session writes of a successful login without the one of organization_name.
establish_session_NameNotWritten(s, o) ==
    SessionSet(SessionSet(s, "organization_id", o), "is_logged_in", TRUE)

\* The three session writes of a successful login.
establish_session(s, o) ==
    SessionSet(SessionSet(SessionSet(s, "organization_id", o),
                          "organization_name", organizations[o].name),
               "is_logged_in", TRUE)

\* login_view writing organization_id as soon as the Organization is found,
\* before the password is checked.
login_view_result_WritesBeforeCheck(s, method, email, password) ==
    LET request == [method |-> method, email |-> email, password |-> password]
        found == OrganizationsByEmail(email)
    IN  IF method = "POST" /\ found # {}
        THEN LET o == CHOOSE o \in found : TRUE
             IN  IF check_password(password, organizations[o].password)
                 THEN [session |-> establish_session(s, o),
                       response |-> Response("login", request, "redirect", "dashboard",
                                             "", NULL, NoData)]
                 ELSE [session |-> SessionSet(s, "organization_id", o),
                       response |-> Response("login", request, "render", "login.html",
                                             MSG_WRONG_PASSWORD, NULL, NoData)]
        ELSE [session |-> s,
              response |-> Response("login", request, "render", "login.html",
                                    IF method = "POST" THEN MSG_NO_ORGANIZATION ELSE "",
                                    NULL, NoData)]

\* login_view's outcome from a session s: [session, response].
login_view_result(s, method, email, password) ==
    LET request == [method |-> method, email |-> email, password |-> password]
        found == OrganizationsByEmail(email)
    IN  IF method = "POST"
        THEN IF found # {}
             THEN LET o == CHOOSE o \in found : TRUE
                  IN  IF check_password(password, organizations[o].password)
                      THEN [session |-> establish_session(s, o),
                            response |-> Response("login", request, "redirect", "dashboard",
                                                  "", NULL, NoData)]
                      ELSE [session |-> s,
                            response |-> Response("login", request, "render", "login.html",
                                                  MSG_WRONG_PASSWORD, NULL, NoData)]
             ELSE [session |-> s,
                   response |-> Response("login", request, "render", "login.html",
                                         MSG_NO_ORGANIZATION, NULL, NoData)]
        ELSE [session |-> s,
              response |-> Response("login", request, "render", "login.html", "", NULL, NoData)]

login_view(method, email, password) ==
    /\ NoRequestsInFlight
    /\ LET r == login_view_result(session, method, email, password)
       IN  /\ session' = r.session
           /\ resp' = r.response
    /\ UNCHANGED <<store, reqs>>

\* The three guarded deletes of login/views.py's logout_view.
login_terminate_session(s) ==
    SessionDelIfPresent(SessionDelIfPresent(SessionDelIfPresent(s, "organization_id"),
                                            "organization_name"),
                        "is_logged_in")

\* logout_view of login/views.py
login_logout_view ==
    /\ NoRequestsInFlight
    /\ session' = login_terminate_session(session)
    /\ resp' = Response("logout", [method |-> "GET"], "redirect", "home", "", NULL, NoData)
    /\ UNCHANGED <<store, reqs>>

----------------------------------------------------------------------------
(* register/views.py *)

\* OrganizationRegistrationForm.clean without the comparison of the two passwords.
clean_NoComparison(password, confirm_password) == {}

\* OrganizationRegistrationForm.clean: the fields it adds an error to.  A field
\* that failed its own validation is missing from cleaned_data.
clean(password, confirm_password) ==
    IF password # <<>> /\ confirm_password # <<>> /\ password # confirm_password
    THEN {"confirm_password"}
    ELSE {}

\* The fields with errors after form.is_valid(): required fields left empty,
\* the model's unique name and email, and clean().
form_errors(name, email, password, confirm_password) ==
    {f \in {"name"} : name = "" \/ \E o \in DOMAIN organizations : organizations[o].name = name}
    \cup {f \in {"email"} : email = ""
                            \/ \E o \in DOMAIN organizations : organizations[o].email = email}
    \cup {f \in {"password"} : password = <<>>}
    \cup {f \in {"confirm_password"} : confirm_password = <<>>}
    \cup clean(password, confirm_password)

\* OrganizationRegistrationForm.save: the row it stores.
save(name, email, password, salt) ==
    [name |-> name, email |-> email, password |-> make_password(password, salt)]

register_organization(method, name, email, password, confirm_password, salt) ==
    LET request == [method |-> method, name |-> name, email |-> email,
                    password |-> password, confirm_password |-> confirm_password]
        errors == form_errors(name, email, password, confirm_password)
    IN  /\ NoRequestsInFlight
        /\ IF method = "POST" /\ errors = {}
           THEN /\ nextId.organization <= MaxOrgs
                /\ organizations' = [o \in DOMAIN organizations \cup {nextId.organization} |->
                                        IF o = nextId.organization
                                        THEN save(name, email, password, salt)
                                        ELSE organizations[o]]
                /\ nextId' = [nextId EXCEPT !.organization = @ + 1]
                /\ resp' = Response("register", request, "redirect", "register", "", NULL, {})
           ELSE /\ resp' = Response("register", request, "render", "register.html", "", NULL,
                                    IF method = "POST" THEN errors ELSE {})
                /\ UNCHANGED <<organizations, nextId>>
        /\ UNCHANGED <<devices, alertRows, measurementRows, session, reqs>>

----------------------------------------------------------------------------
(* dashboard/views.py: the session guard and the tenant *)

\* login_required with the test on the wrong key.
login_required_AnyKey(s) == DOMAIN s # {}

\* login_required: whether the wrapped view runs.
login_required(s) == SessionGet(s, "is_logged_in", FALSE) = TRUE

\* request.user, which django.contrib.auth derives from the session.
RequestUser(s) ==
    IF AuthKey \in DOMAIN s
    THEN [is_authenticated |-> TRUE, profile |-> Users[s[AuthKey]].profile,
          organization |-> Users[s[AuthKey]].organization]
    ELSE [is_authenticated |-> FALSE, profile |-> NULL, organization |-> NULL]

\* A foreign key to an Organization row reads as null once the row is gone.
OrganizationRef(o) == IF o \in DOMAIN organizations THEN o ELSE NULL

\* _get_organization: the Organization (its id) or None (NULL).
_get_organization(s) ==
    LET org_id == SessionGet(s, "organization_id", NULL)
        org == IF org_id # NULL THEN OrganizationRef(org_id) ELSE NULL
        user == RequestUser(s)
    IN  IF org = NULL /\ user.is_authenticated
        THEN IF OrganizationRef(user.profile) # NULL
             THEN OrganizationRef(user.profile)
             ELSE OrganizationRef(user.organization)
        ELSE org

\* organization_id = org.id if org else request.session.get('organization_id')
view_organization_id(s) ==
    LET org == _get_organization(s)
    IN  IF org # NULL THEN org ELSE SessionGet(s, "organization_id", NULL)

\* The head of every protected view rejects the request: the guard fails, or
\* there is no organization id.
rejected(s) == ~login_required(s) \/ view_organization_id(s) = NULL

\* The redirect of a rejected request.
reject_response(view, request, s) ==
    IF ~login_required(s)
    THEN Response(view, request, "redirect", "login", MSG_LOGIN_REQUIRED, NULL, NoData)
    ELSE Response(view, request, "redirect", "login", MSG_INVALID_SESSION, NULL, NoData)

\* logout_view of dashboard/views.py (@require_POST)
dashboard_logout_view(method) ==
    /\ NoRequestsInFlight
    /\ IF method = "POST"
       THEN /\ session' = SessionFlush(session)
            /\ resp' = Response("dashboard_logout", [method |-> method], "redirect", "login",
                                "", NULL, NoData)
       ELSE /\ resp' = Response("dashboard_logout", [method |-> method], "http405", "",
                                "", NULL, NoData)
            /\ UNCHANGED session
    /\ UNCHANGED <<store, reqs>>

----------------------------------------------------------------------------
(* dashboard/views.py: the queries *)

\* Device.objects with the filter on organization_id left out.
DevicesOf_Unfiltered(t) == DOMAIN devices

\* Device.objects.filter(organization_id=t): the device ids.
DevicesOf(t) == {d \in DOMAIN devices : devices[d].organization_id = t}

\* Alert.objects.filter(device__organization_id=t).order_by('-created_at')
AlertsOf(t) == Reverse(SelectSeq(alertRows, LAMBDA a : a.device \in DevicesOf(t)))

\* Measurement.objects.filter(device__organization_id=t).order_by('-timestamp')
MeasurementsOf(t) == Reverse(SelectSeq(measurementRows, LAMBDA m : m.device \in DevicesOf(t)))

\* qs[:n]
Limit(s, n) == SubSeq(s, 1, Min(Len(s), n))

\* .values('category__name').annotate(conteo=Count('id')): one row per name.
CategoryGroups(t) ==
    {[key |-> n, conteo |-> Cardinality({d \in DevicesOf(t) : CategoryName[devices[d].category] = n})] :
        n \in {CategoryName[devices[d].category] : d \in DevicesOf(t)}}

\* .values('zone__name').annotate(conteo=Count('id'))
ZoneGroups(t) ==
    {[key |-> n, conteo |-> Cardinality({d \in DevicesOf(t) : ZoneName[devices[d].zone] = n})] :
        n \in {ZoneName[devices[d].zone] : d \in DevicesOf(t)}}

\* .values('alert_type').annotate(conteo=Count('id')): one row per stored value.
SeverityGroups(t) ==
    LET mine == AlertsOf(t)
    IN  {[key |-> ty, conteo |-> Cardinality({i \in DOMAIN mine : mine[i].alert_type = ty})] :
            ty \in {mine[i].alert_type : i \in DOMAIN mine}}

\* str.upper() on the stored alert types.
Upper(str) == CASE str = "maintenance" -> "MAINTENANCE"
                [] OTHER -> str

\* name or sentinel
OrSentinel(name, sentinel) == IF name = "" THEN sentinel ELSE name

\* The rows with name or sentinel as their key.
LabelRows(rows, sentinel) ==
    [i \in DOMAIN rows |-> [key |-> OrSentinel(rows[i].key, sentinel), conteo |-> rows[i].conteo]]

\* The rows with the uppercased alert type as their key.
UpperRows(rows) ==
    [i \in DOMAIN rows |-> [key |-> Upper(rows[i].key), conteo |-> rows[i].conteo]]

\* A dict built row by row, d[row.key] = row.conteo: a later row with the
\* same key replaces the earlier one.
DictOfRows(rows) ==
    [k \in {rows[i].key : i \in DOMAIN rows} |->
        LET last == CHOOSE i \in DOMAIN rows :
                        /\ rows[i].key = k
                        /\ \A j \in DOMAIN rows : rows[j].key = k => j <= i
        IN  rows[last].conteo]

\* d.get(a) or d.get(b) or 0
GetOr(d, a, b) == IF a \in DOMAIN d /\ d[a] # 0 THEN d[a]
                  ELSE IF b \in DOMAIN d /\ d[b] # 0 THEN d[b] ELSE 0

----------------------------------------------------------------------------
(* django.core.paginator.Paginator, as alerts and measurements use it *)

Digits == {"0", "1", "2"}
DigitValue(c) == CASE c = "0" -> 0 [] c = "1" -> 1 [] OTHER -> 2

\* The ?page= values tried: texts of up to two symbols.
PageSymbols == Digits \cup {"-", "a"}
PageTexts == {<<>>} \cup {<<a>> : a \in PageSymbols}
             \cup {<<a, b>> : a \in PageSymbols, b \in PageSymbols}

\* Whether int(text) succeeds: an optional sign, then digits.
IsInt(text) ==
    LET body == IF text # <<>> /\ text[1] = "-" THEN Tail(text) ELSE text
    IN  body # <<>> /\ \A i \in DOMAIN body : body[i] \in Digits

RECURSIVE DecimalValue(_)
DecimalValue(body) ==
    IF body = <<>> THEN 0
    ELSE 10 * DecimalValue(SubSeq(body, 1, Len(body) - 1)) + DigitValue(body[Len(body)])

\* int(text), for a text that IsInt
IntValue(text) == IF text[1] = "-" THEN 0 - DecimalValue(Tail(text)) ELSE DecimalValue(text)

\* Paginator.num_pages (orphans=0, allow_empty_first_page=True)
num_pages(count, per_page) ==
    IF count = 0 THEN 1 ELSE (count + per_page - 1) \div per_page

\* Paginator.validate_number: the page number, or the exception raised.
\* page is request.GET.get('page', 1): [given, text].
validate_number(page, count, per_page) ==
    IF ~page.given THEN [ok |-> TRUE, number |-> 1, raised |-> ""]
    ELSE IF ~IsInt(page.text) THEN [ok |-> FALSE, number |-> 0, raised |-> "PageNotAnInteger"]
    ELSE IF IntValue(page.text) < 1 THEN [ok |-> FALSE, number |-> 0, raised |-> "EmptyPage"]
    ELSE IF IntValue(page.text) > num_pages(count, per_page)
         THEN [ok |-> FALSE, number |-> 0, raised |-> "EmptyPage"]
    ELSE [ok |-> TRUE, number |-> IntValue(page.text), raised |-> ""]

\* Paginator.page(number) for a valid number: object_list[bottom:top]
page_of(object_list, number, per_page) ==
    LET bottom == (number - 1) * per_page
        top == Min(bottom + per_page, Len(object_list))
    IN  SubSeq(object_list, bottom + 1, top)

\* The fallback of the two views falling back to the requested number.
paginate_NoFallback(object_list, page, per_page) ==
    LET v == validate_number(page, Len(object_list), per_page)
        number == IF v.ok THEN v.number ELSE IF IsInt(page.text) THEN IntValue(page.text) ELSE 1
    IN  [number |-> number,
         num_pages |-> num_pages(Len(object_list), per_page),
         items |-> IF number >= 1 THEN page_of(object_list, number, per_page) ELSE <<>>]

\* try: paginator.page(page)  except (PageNotAnInteger, EmptyPage): paginator.page(1)
paginate(object_list, page, per_page) ==
    LET v == validate_number(page, Len(object_list), per_page)
        number == IF v.ok THEN v.number ELSE 1
    IN  [number |-> number,
         num_pages |-> num_pages(Len(object_list), per_page),
         items |-> page_of(object_list, number, per_page)]

Ids(rows) == [i \in DOMAIN rows |-> rows[i].id]

----------------------------------------------------------------------------
(* dashboard/views.py: the protected views *)

\* The dashboard's context for organization id t, the rows of the three
\* grouped queries coming back in the orders given.
dashboard_context(t, categorias, zonas, sever) ==
    LET severidad_counts == DictOfRows(UpperRows(sever))
    IN  [dispositivos_por_categoria |-> DictOfRows(LabelRows(categorias, "Sin categoría")),
         dispositivos_por_zona |-> DictOfRows(LabelRows(zonas, "Sin zona")),
         alertas_por_severidad |-> severidad_counts,
         conteo_grave |-> GetOr(severidad_counts, "CRITICAL", "GRAVE"),
         conteo_alto |-> GetOr(severidad_counts, "HIGH", "ALTO"),
         conteo_mediano |-> GetOr(severidad_counts, "MEDIUM", "MEDIANO"),
         alertas_recientes |-> Ids(Limit(AlertsOf(t), RECENT_LIMIT)),
         ultimas_mediciones |-> Ids(Limit(MeasurementsOf(t), RECENT_LIMIT))]

dashboard ==
    LET request == [method |-> "GET"]
        o == view_organization_id(session)
    IN  /\ NoRequestsInFlight
        /\ IF rejected(session)
           THEN resp' = reject_response("dashboard", request, session)
           ELSE \E categorias \in Orderings(CategoryGroups(o)),
                   zonas \in Orderings(ZoneGroups(o)),
                   sever \in Orderings(SeverityGroups(o)) :
                   resp' = Response("dashboard", request, "render", "dashboard.html", "", o,
                                    dashboard_context(o, categorias, zonas, sever))
        /\ UNCHANGED <<store, session, reqs>>

devices_by_category ==
    LET request == [method |-> "GET"]
        o == view_organization_id(session)
    IN  /\ NoRequestsInFlight
        /\ IF rejected(session)
           THEN resp' = reject_response("devices_by_category", request, session)
           ELSE \E categorias \in Orderings(CategoryGroups(o)) :
                   resp' = Response("devices_by_category", request, "render",
                                    "devices_by_category.html", "", o,
                                    DictOfRows(LabelRows(categorias, "Sin categoría")))
        /\ UNCHANGED <<store, session, reqs>>

devices_by_zone ==
    LET request == [method |-> "GET"]
        o == view_organization_id(session)
    IN  /\ NoRequestsInFlight
        /\ IF rejected(session)
           THEN resp' = reject_response("devices_by_zone", request, session)
           ELSE \E zonas \in Orderings(ZoneGroups(o)) :
                   resp' = Response("devices_by_zone", request, "render",
                                    "devices_by_zone.html", "", o,
                                    DictOfRows(LabelRows(zonas, "Sin zona")))
        /\ UNCHANGED <<store, session, reqs>>

alerts(page) ==
    LET request == [method |-> "GET", page |-> page]
        o == view_organization_id(session)
    IN  /\ NoRequestsInFlight
        /\ resp' = IF rejected(session)
                   THEN reject_response("alerts", request, session)
                   ELSE Response("alerts", request, "render", "alerts.html", "", o,
                                 paginate(Ids(AlertsOf(o)), page, ALERTS_PER_PAGE))
        /\ UNCHANGED <<store, session, reqs>>

measurements(page) ==
    LET request == [method |-> "GET", page |-> page]
        o == view_organization_id(session)
    IN  /\ NoRequestsInFlight
        /\ resp' = IF rejected(session)
                   THEN reject_response("measurements", request, session)
                   ELSE Response("measurements", request, "render", "measurements.html", "", o,
                                 [ultimas_mediciones |->
                                      Ids(Limit(MeasurementsOf(o), PREVIEW_LIMIT))]
                                 @@ paginate(Ids(MeasurementsOf(o)), page,
                                             MEASUREMENTS_PER_PAGE))
        /\ UNCHANGED <<store, session, reqs>>

\* The context of devices_list for organization id o and the category asked for.
devices_list_context(o, category) ==
    [dispositivos |-> IF category # ""
                      THEN {d \in DevicesOf(o) : CategoryName[devices[d].category] = category}
                      ELSE DevicesOf(o),
     categorias |-> {CategoryName[devices[d].category] : d \in DevicesOf(o)},
     categoria_seleccionada |-> category]

\* category: request.GET.get('category', ''), a category name or "".
devices_list(category) ==
    LET request == [method |-> "GET", category |-> category]
        o == view_organization_id(session)
    IN  /\ NoRequestsInFlight
        /\ resp' = IF rejected(session)
                   THEN reject_response("devices_list", request, session)
                   ELSE Response("devices_list", request, "render", "devices_list.html", "", o,
                                 devices_list_context(o, category))
        /\ UNCHANGED <<store, session, reqs>>

\* The ownership test of device_detail left out.
device_owned_Always(id, organization_id) == TRUE

\* if dispositivo.organization_id != organization_id: raise Http404
device_owned(id, organization_id) == devices[id].organization_id = organization_id

device_detail(id) ==
    LET request == [method |-> "GET", id |-> id]
        o == view_organization_id(session)
    IN  /\ NoRequestsInFlight
        /\ resp' = IF rejected(session)
                   THEN reject_response("device_detail", request, session)
                   ELSE IF id \notin DOMAIN devices
                   THEN Response("device_detail", request, "http404", "",
                                 "No Device matches the given query.", o, NoData)
                   ELSE IF ~device_owned(id, o)
                   THEN Response("device_detail", request, "http404", "",
                                 "Dispositivo no encontrado", o, NoData)
                   ELSE Response("device_detail", request, "render", "device_detail.html",
                            "", o,
                            [dispositivo |-> id,
                             mediciones |-> Ids(Reverse(SelectSeq(measurementRows,
                                                   LAMBDA m : m.device = id))),
                             alertas |-> Ids(Reverse(SelectSeq(alertRows,
                                                   LAMBDA a : a.device = id)))])
        /\ UNCHANGED <<store, session, reqs>>

----------------------------------------------------------------------------
(* dashboard/admin.py and the paths that write the store directly *)

AdminResponse == Response("admin", [method |-> "POST"], "redirect", "admin", "", NULL, NoData)

\* django.contrib.auth's login of user u on this session (the admin site's
\* login): a session of another user is flushed first.
AdminLogin(u) ==
    /\ NoRequestsInFlight
    /\ session' = IF AuthKey \in DOMAIN session /\ session[AuthKey] # u
                  THEN SessionSet(SessionFlush(session), AuthKey, u)
                  ELSE SessionSet(session, AuthKey, u)
    /\ resp' = AdminResponse
    /\ UNCHANGED <<store, reqs>>

\* OrganizationAdmin's delete: the row goes, and on_delete=CASCADE takes its
\* devices with their measurements and alerts.
AdminDeleteOrganization(o) ==
    LET gone == {d \in DOMAIN devices : devices[d].organization_id = o}
    IN  /\ NoRequestsInFlight
        /\ o \in DOMAIN organizations
        /\ organizations' = [x \in DOMAIN organizations \ {o} |-> organizations[x]]
        /\ devices' = [d \in DOMAIN devices \ gone |-> devices[d]]
        /\ alertRows' = SelectSeq(alertRows, LAMBDA a : a.device \notin gone)
        /\ measurementRows' = SelectSeq(measurementRows, LAMBDA m : m.device \notin gone)
        /\ resp' = AdminResponse
        /\ UNCHANGED <<nextId, session, reqs>>

\* DeviceAdmin's add form: organization may be left empty (null=True, blank=True).
AdminAddDevice(organization_id, category, zone) ==
    /\ NoRequestsInFlight
    /\ nextId.device <= MaxDevices
    /\ organization_id \in DOMAIN organizations \cup {NULL}
    /\ devices' = [d \in DOMAIN devices \cup {nextId.device} |->
                      IF d = nextId.device
                      THEN [organization_id |-> organization_id, category |-> category,
                            zone |-> zone, deleted_at |-> FALSE]
                      ELSE devices[d]]
    /\ nextId' = [nextId EXCEPT !.device = @ + 1]
    /\ resp' = AdminResponse
    /\ UNCHANGED <<organizations, alertRows, measurementRows, session, reqs>>

\* DeviceAdmin's change form setting deleted_at: the soft delete.
AdminSoftDeleteDevice(d) ==
    /\ NoRequestsInFlight
    /\ d \in DOMAIN devices
    /\ ~devices[d].deleted_at
    /\ devices' = [devices EXCEPT ![d].deleted_at = TRUE]
    /\ resp' = AdminResponse
    /\ UNCHANGED <<organizations, alertRows, measurementRows, nextId, session, reqs>>

\* An Alert row written by the alerting path.
AddAlert(device, alert_type) ==
    /\ NoRequestsInFlight
    /\ nextId.alert <= MaxAlerts
    /\ device \in DOMAIN devices
    /\ alertRows' = Append(alertRows, [id |-> nextId.alert, device |-> device,
                                       alert_type |-> alert_type])
    /\ nextId' = [nextId EXCEPT !.alert = @ + 1]
    /\ resp' = AdminResponse
    /\ UNCHANGED <<organizations, devices, measurementRows, session, reqs>>

\* A Measurement row written by the ingestion path.
AddMeasurement(device) ==
    /\ NoRequestsInFlight
    /\ nextId.measurement <= MaxMeasurements
    /\ device \in DOMAIN devices
    /\ measurementRows' = Append(measurementRows, [id |-> nextId.measurement, device |-> device])
    /\ nextId' = [nextId EXCEPT !.measurement = @ + 1]
    /\ resp' = AdminResponse
    /\ UNCHANGED <<organizations, devices, alertRows, session, reqs>>

----------------------------------------------------------------------------
(* The specification of the session, the tenant and registration *)

IdleRequest == [view |-> "", pc |-> "idle", session |-> EmptyDict, modified |-> FALSE]

NoPage == [given |-> FALSE, text |-> <<>>]

Init ==
    /\ organizations = EmptyDict
    /\ devices = EmptyDict
    /\ alertRows = <<>>
    /\ measurementRows = <<>>
    /\ nextId = [organization |-> 1, device |-> 1, alert |-> 1, measurement |-> 1]
    /\ session = EmptyDict
    /\ reqs = [r \in 1..MaxRequests |-> IdleRequest]
    /\ resp = Response("", [method |-> ""], "", "", "", NULL, NoData)

Next ==
    \/ register_organization("GET", "", "", <<>>, <<>>, "")
    \/ \E name \in Names, email \in Emails,
          password \in Passwords \cup {<<>>}, confirm_password \in Passwords \cup {<<>>},
          salt \in Salts :
          register_organization("POST", name, email, password, confirm_password, salt)
    \/ login_view("GET", "", <<>>)
    \/ \E email \in Emails \cup {""}, password \in Passwords \cup {<<>>} :
          login_view("POST", email, password)
    \/ login_logout_view
    \/ \E method \in Methods : dashboard_logout_view(method)
    \/ \E u \in UserIds : AdminLogin(u)
    \/ \E o \in DOMAIN organizations : AdminDeleteOrganization(o)
    \/ dashboard
    \/ devices_by_category
    \/ devices_by_zone
    \/ alerts(NoPage)
    \/ measurements(NoPage)
    \/ devices_list("")
    \/ \E id \in 1..MaxDevices : device_detail(id)

Spec == Init /\ [][Next]_vars

----------------------------------------------------------------------------
(* Properties of the session, the tenant and registration *)

ProtectedViews == {"dashboard", "devices_by_category", "devices_by_zone", "alerts",
                   "measurements", "devices_list", "device_detail"}

\* The session holds is_logged_in = True.
HasLogin(s) == "is_logged_in" \in DOMAIN s /\ s["is_logged_in"] = TRUE

\* The response is the Unauthorized outcome: a redirect to login, no tenant query.
IsUnauthorized(r) ==
    r.kind = "redirect" /\ r.target = "login" /\ r.error = MSG_LOGIN_REQUIRED /\ r.tenant = NULL

\* The response is the InvalidSession outcome: a redirect to login, no tenant query.
IsInvalidSession(r) ==
    r.kind = "redirect" /\ r.target = "login" /\ r.error = MSG_INVALID_SESSION /\ r.tenant = NULL

\* The step is a login POST for an existing Organization's email with a
\* password that is not the one its stored hash was made from.
WrongPasswordPost ==
    /\ resp'.view = "login"
    /\ resp'.request.method = "POST"
    /\ \E o \in DOMAIN organizations :
          /\ organizations[o].email = resp'.request.email
          /\ organizations[o].password
                 # make_password(resp'.request.password, organizations[o].password[2])

\* C1: from a session with none of the three keys, a login POST with an
\* existing Organization's email and a wrong password answers 'Contraseña
\* incorrecta' and leaves the session as it was; and any request to a protected
\* view on a session without the keys is answered Unauthorized.
C1_WrongPasswordEstablishesNothing ==
    [][ /\ (SessionKeys \cap DOMAIN session = {} /\ WrongPasswordPost)
            => /\ resp'.kind = "render"
               /\ resp'.target = "login.html"
               /\ resp'.error = MSG_WRONG_PASSWORD
               /\ session' = session
        /\ (SessionKeys \cap DOMAIN session = {} /\ resp'.view \in ProtectedViews)
            => /\ IsUnauthorized(resp')
               /\ session' = session ]_vars

C1_Witness ==
    /\ resp.view = "login"
    /\ resp.error = MSG_WRONG_PASSWORD
    /\ \E o \in DOMAIN organizations : organizations[o].email = resp.request.email
    /\ SessionKeys \cap DOMAIN session = {}

\* The tenant of session s is Unresolved: its organization_id resolves to no
\* Organization row and the authenticated principal supplies none.
TenantUnresolved(s) ==
    /\ ("organization_id" \notin DOMAIN s \/ s["organization_id"] \notin DOMAIN organizations)
    /\ \/ AuthKey \notin DOMAIN s
       \/ /\ Users[s[AuthKey]].profile \notin DOMAIN organizations
          /\ Users[s[AuthKey]].organization \notin DOMAIN organizations

\* C3: a protected view on a logged-in session whose tenant is Unresolved
\* answers InvalidSession and runs no tenant query, also when the session's
\* organization_id is that of a deleted Organization.
C3_UnresolvedTenantIsInvalidSession ==
    (resp.view \in ProtectedViews /\ HasLogin(session) /\ TenantUnresolved(session))
        => IsInvalidSession(resp)

C8_ProtectedOnlyWhenLoggedIn ==
    resp.view \in ProtectedViews =>
        /\ ~HasLogin(session) => IsUnauthorized(resp)
        /\ (resp.tenant # NULL \/ resp.kind # "redirect") => HasLogin(session)

C8_Witness ==
    /\ resp.view \in ProtectedViews
    /\ IsUnauthorized(resp)
    /\ AuthKey \in DOMAIN session
    /\ organizations # EmptyDict

\* C10: after either logout_view has run, the session holds none of the three
\* keys and no other key.
C10_LogoutLeavesNoKey ==
    (resp.view \in {"logout", "dashboard_logout"} /\ resp.kind = "redirect")
        => DOMAIN session = {}

----------------------------------------------------------------------------
(* The specifications of the tenant's devices and of its alerts: two            *)
(* Organizations are registered and the session is logged in as one of them.  *)

\* The Organization rows after A and B have registered.
TwoOrganizations ==
    [o \in 1..2 |-> IF o = 1 THEN save("A", "a@x", <<"p">>, "s1")
                            ELSE save("B", "b@x", <<"q">>, "s1")]

\* One Device for each of the two Organizations.
TwoDevices ==
    [d \in 1..2 |-> [organization_id |-> d, category |-> 1, zone |-> 1, deleted_at |-> FALSE]]

InitTenants ==
    /\ organizations = TwoOrganizations
    /\ alertRows = <<>>
    /\ measurementRows = <<>>
    /\ session \in {establish_session(EmptyDict, o) : o \in DOMAIN TwoOrganizations}
    /\ reqs = [r \in 1..MaxRequests |-> IdleRequest]
    /\ resp = Response("", [method |-> ""], "", "", "", NULL, NoData)

InitDevices ==
    /\ InitTenants
    /\ devices = EmptyDict
    /\ nextId = [organization |-> 3, device |-> 1, alert |-> 1, measurement |-> 1]

NextDevices ==
    \/ \E o \in DOMAIN organizations \cup {NULL}, c \in CategoryIds, z \in ZoneIds :
          AdminAddDevice(o, c, z)
    \/ \E d \in DOMAIN devices : AdminSoftDeleteDevice(d)
    \/ dashboard
    \/ devices_by_category
    \/ \E category \in {"", "HVAC"} : devices_list(category)
    \/ \E id \in 1..MaxDevices : device_detail(id)

SpecDevices == InitDevices /\ [][NextDevices]_vars

InitAlerts ==
    /\ InitTenants
    /\ devices = TwoDevices
    /\ nextId = [organization |-> 3, device |-> 3, alert |-> 1, measurement |-> 1]

NextAlerts ==
    \/ \E d \in DOMAIN devices, ty \in AlertTypes : AddAlert(d, ty)
    \/ \E d \in DOMAIN devices : AddMeasurement(d)
    \/ dashboard
    \/ alerts(NoPage)
    \/ measurements(NoPage)

SpecAlerts == InitAlerts /\ [][NextAlerts]_vars

\* C2: device_detail for tenant T and device id d answers with the device,
\* its measurements and its alerts when Device d's organization is T, and
\* with the same Http404 when there is no Device d and when Device d is
\* another organization's or nobody's.
C2_DeviceDetailOwnOrNotFound ==
    (resp.view = "device_detail" /\ resp.tenant # NULL) =>
        LET d == resp.request.id
            T == resp.tenant
        IN  IF d \in DOMAIN devices /\ devices[d].organization_id = T
            THEN /\ resp.kind = "render"
                 /\ resp.data.dispositivo = d
                 /\ \A i \in DOMAIN resp.data.mediciones :
                       \E j \in DOMAIN measurementRows :
                          measurementRows[j].id = resp.data.mediciones[i]
                          /\ measurementRows[j].device = d
                 /\ \A i \in DOMAIN resp.data.alertas :
                       \E j \in DOMAIN alertRows :
                          alertRows[j].id = resp.data.alertas[i] /\ alertRows[j].device = d
            ELSE /\ resp.kind = "http404"
                 /\ resp.target = ""

C2_Witness ==
    /\ resp.view = "device_detail"
    /\ resp.kind = "http404"
    /\ resp.request.id \in DOMAIN devices
    /\ devices[resp.request.id].organization_id \in DOMAIN organizations
    /\ devices[resp.request.id].organization_id # resp.tenant
    /\ resp.tenant \in DOMAIN organizations

\* C4: the counts of dispositivos_por_categoria for tenant T add up to the
\* number of T's Devices that are not soft-deleted.
C4_CategoryCountsSumToLiveDevices ==
    (resp.view \in {"dashboard", "devices_by_category"} /\ resp.kind = "render") =>
        LET counts == IF resp.view = "dashboard" THEN resp.data.dispositivos_por_categoria
                      ELSE resp.data
        IN  SumValues(counts)
              = Cardinality({d \in DOMAIN devices :
                                devices[d].organization_id = resp.tenant
                                /\ ~devices[d].deleted_at})

\* C5: in alertas_por_severidad for tenant T, the count under each key is the
\* number of T's alerts whose uppercased alert_type is the key, so the counts
\* add up to the number of T's alerts.
C5_SeverityCountsEveryAlertOnce ==
    (resp.view = "dashboard" /\ resp.kind = "render") =>
        LET mine == {i \in DOMAIN alertRows :
                        devices[alertRows[i].device].organization_id = resp.tenant}
            counts == resp.data.alertas_por_severidad
        IN  /\ DOMAIN counts = {Upper(alertRows[i].alert_type) : i \in mine}
            /\ \A k \in DOMAIN counts :
                  counts[k] = Cardinality({i \in mine : Upper(alertRows[i].alert_type) = k})
            /\ SumValues(counts) = Cardinality(mine)

----------------------------------------------------------------------------
(* The specification of the paginated lists: a populated store *)

\* n rows in creation order, every fourth one of Device 2, the others of Device 1.
PopulatedAlerts(n) ==
    [i \in 1..n |-> [id |-> i, device |-> IF i % 4 = 0 THEN 2 ELSE 1,
                     alert_type |-> "MAINTENANCE"]]

PopulatedMeasurements(n) ==
    [i \in 1..n |-> [id |-> i, device |-> IF i % 4 = 0 THEN 2 ELSE 1]]

PageParams == {NoPage} \cup {[given |-> TRUE, text |-> t] : t \in PageTexts}

InitPage ==
    /\ organizations = TwoOrganizations
    /\ devices = TwoDevices
    /\ \/ /\ \E n \in 0..MaxPageAlerts : alertRows = PopulatedAlerts(n)
          /\ measurementRows = <<>>
       \/ /\ alertRows = <<>>
          /\ \E n \in 1..MaxPageMeasurements : measurementRows = PopulatedMeasurements(n)
    /\ nextId = [organization |-> 3, device |-> 3, alert |-> Len(alertRows) + 1,
                 measurement |-> Len(measurementRows) + 1]
    /\ session \in {establish_session(EmptyDict, o) : o \in DOMAIN TwoOrganizations}
    /\ reqs = [r \in 1..MaxRequests |-> IdleRequest]
    /\ resp = Response("", [method |-> ""], "", "", "", NULL, NoData)

NextPage ==
    \/ \E page \in PageParams : alerts(page)
    \/ \E page \in PageParams : measurements(page)

SpecPage == InitPage /\ [][NextPage]_vars

\* The ids of tenant T's rows among rows.
TenantIds(rows, T) ==
    {rows[i].id : i \in {j \in DOMAIN rows : devices[rows[j].device].organization_id = T}}

\* items is the stretch from..to (1-indexed, cut at the end) of the ids S
\* taken newest first.
IsNewestFirstStretch(items, S, from, to) ==
    /\ Len(items) = (IF to < Cardinality(S) THEN to ELSE Cardinality(S)) - (from - 1)
    /\ \A k \in DOMAIN items :
          /\ items[k] \in S
          /\ Cardinality({x \in S : x > items[k]}) = from - 1 + k - 1

\* C6: alerts (20 a page) and measurements (50 a page) always render; a page
\* parameter that is no integer, is below 1 or is beyond the last page gives
\* page 1 of the tenant's rows newest first, and a page p in range gives rows
\* (p-1)*size+1 .. p*size of them.
C6_PageClampsToFirst ==
    (resp.view \in {"alerts", "measurements"}) =>
        LET size == IF resp.view = "alerts" THEN 20 ELSE 50
            S == IF resp.view = "alerts" THEN TenantIds(alertRows, resp.tenant)
                 ELSE TenantIds(measurementRows, resp.tenant)
            last == IF S = {} THEN 1 ELSE (Cardinality(S) + size - 1) \div size
            q == resp.request.page
            inRange == q.given /\ IsInt(q.text)
                       /\ IntValue(q.text) >= 1 /\ IntValue(q.text) <= last
            p == IF inRange THEN IntValue(q.text) ELSE 1
        IN  /\ resp.kind = "render"
            /\ resp.tenant = session["organization_id"]
            /\ resp.data.number = p
            /\ IsNewestFirstStretch(resp.data.items, S, (p - 1) * size + 1, p * size)

C6_Witness ==
    /\ resp.view = "measurements"
    /\ resp.request.page.given
    /\ IsInt(resp.request.page.text)
    /\ IntValue(resp.request.page.text) > resp.data.num_pages
    /\ resp.data.num_pages = 2
    /\ resp.data.number = 1
    /\ Len(resp.data.items) = 50

----------------------------------------------------------------------------
(* The specification of concurrent requests on one session.  request.session *)
(* is the request's own object: it reads the session store when the view     *)
(* first touches it, the view's writes and deletes change the request's copy *)
(* and mark it modified, and a modified copy is saved, whole, when the view  *)
(* has returned its response.                                                *)

\* A session store that every write of a view goes through to at once.
session_store_after_WriteThrough(step, stored, local, modified) ==
    IF modified THEN local ELSE stored

\* The session store's data after a step of a request whose copy is local.
session_store_after(step, stored, local, modified) ==
    IF step = "respond" /\ modified THEN local ELSE stored

\* One step of request r: its copy becomes local, it moves to pc.
RequestStep(r, view, step, pc, local, modified) ==
    /\ reqs' = [reqs EXCEPT ![r] = [view |-> view, pc |-> pc, session |-> local,
                                    modified |-> modified]]
    /\ session' = session_store_after(step, session, local, modified)

\* login_view, line 18, for a POST whose password verifies.
ConcLoginLine18(r, email, password) ==
    /\ reqs[r].pc = "idle"
    /\ \E o \in OrganizationsByEmail(email) :
          /\ check_password(password, organizations[o].password)
          /\ RequestStep(r, "login", "line18", "line19",
                         SessionSet(session, "organization_id", o), TRUE)
    /\ UNCHANGED <<store, resp>>

\* login_view, line 19
ConcLoginLine19(r) ==
    /\ reqs[r].view = "login" /\ reqs[r].pc = "line19"
    /\ RequestStep(r, "login", "line19", "line20",
                   SessionSet(reqs[r].session, "organization_name",
                              organizations[reqs[r].session["organization_id"]].name), TRUE)
    /\ UNCHANGED <<store, resp>>

\* login_view, line 20
ConcLoginLine20(r) ==
    /\ reqs[r].view = "login" /\ reqs[r].pc = "line20"
    /\ RequestStep(r, "login", "line20", "respond",
                   SessionSet(reqs[r].session, "is_logged_in", TRUE), TRUE)
    /\ UNCHANGED <<store, resp>>

\* logout_view of login/views.py, lines 34-35
ConcLogoutLine34(r) ==
    /\ reqs[r].pc = "idle"
    /\ RequestStep(r, "logout", "line34", "line36",
                   SessionDelIfPresent(session, "organization_id"),
                   "organization_id" \in DOMAIN session)
    /\ UNCHANGED <<store, resp>>

\* logout_view of login/views.py, lines 36-37
ConcLogoutLine36(r) ==
    /\ reqs[r].view = "logout" /\ reqs[r].pc = "line36"
    /\ RequestStep(r, "logout", "line36", "line38",
                   SessionDelIfPresent(reqs[r].session, "organization_name"),
                   reqs[r].modified \/ "organization_name" \in DOMAIN reqs[r].session)
    /\ UNCHANGED <<store, resp>>

\* logout_view of login/views.py, lines 38-39
ConcLogoutLine38(r) ==
    /\ reqs[r].view = "logout" /\ reqs[r].pc = "line38"
    /\ RequestStep(r, "logout", "line38", "respond",
                   SessionDelIfPresent(reqs[r].session, "is_logged_in"),
                   reqs[r].modified \/ "is_logged_in" \in DOMAIN reqs[r].session)
    /\ UNCHANGED <<store, resp>>

\* The response of login_view or logout_view goes out: the session is saved.
ConcRespond(r) ==
    /\ reqs[r].pc = "respond"
    /\ session' = session_store_after("respond", session, reqs[r].session, reqs[r].modified)
    /\ reqs' = [reqs EXCEPT ![r] = IdleRequest]
    /\ resp' = Response(reqs[r].view, [method |-> "POST"], "redirect",
                        IF reqs[r].view = "login" THEN "dashboard" ELSE "home",
                        "", NULL, NoData)
    /\ UNCHANGED store

\* A protected view: login_required reads the session.
ConcProtectedGuard(r) ==
    /\ reqs[r].pc = "idle"
    /\ RequestStep(r, "devices_list", "guard", "body", session, FALSE)
    /\ UNCHANGED <<store, resp>>

\* A protected view: the rest of it, on the session it read.
ConcProtectedBody(r) ==
    LET request == [method |-> "GET", category |-> ""]
        local == reqs[r].session
    IN  /\ reqs[r].view = "devices_list" /\ reqs[r].pc = "body"
        /\ resp' = IF rejected(local)
                   THEN reject_response("devices_list", request, local)
                   ELSE Response("devices_list", request, "render", "devices_list.html", "",
                                 view_organization_id(local),
                                 devices_list_context(view_organization_id(local), ""))
        /\ reqs' = [reqs EXCEPT ![r] = IdleRequest]
        /\ UNCHANGED <<store, session>>

InitConc ==
    /\ organizations = TwoOrganizations
    /\ devices = TwoDevices
    /\ alertRows = <<>>
    /\ measurementRows = <<>>
    /\ nextId = [organization |-> 3, device |-> 3, alert |-> 1, measurement |-> 1]
    /\ session = EmptyDict
    /\ reqs = [r \in 1..MaxRequests |-> IdleRequest]
    /\ resp = Response("", [method |-> ""], "", "", "", NULL, NoData)

NextConc ==
    \E r \in DOMAIN reqs :
        \/ \E email \in Emails, password \in Passwords : ConcLoginLine18(r, email, password)
        \/ ConcLoginLine19(r)
        \/ ConcLoginLine20(r)
        \/ ConcLogoutLine34(r)
        \/ ConcLogoutLine36(r)
        \/ ConcLogoutLine38(r)
        \/ ConcRespond(r)
        \/ ConcProtectedGuard(r)
        \/ ConcProtectedBody(r)

SpecConc == InitConc /\ [][NextConc]_vars

\* The dictionary holds all three of the login's keys or none of them.
AllOrNone(s) == SessionKeys \cap DOMAIN s \in {{}, SessionKeys}

\* C9: whatever login_view's three writes and logout_view's three deletes of
\* concurrent requests have done so far, the session a protected request has
\* read, and the one the next request would read, holds all three keys or none.
C9_SessionSeenAllOrNone ==
    /\ AllOrNone(session)
    /\ \A r \in DOMAIN reqs :
          reqs[r].view \in ProtectedViews => AllOrNone(reqs[r].session)

\* A protected request holds the session it read while a login is between
\* its writes and a logout between its deletes.
C9_Witness ==
    \E r1, r2 \in DOMAIN reqs :
        /\ reqs[r1].view \in ProtectedViews /\ reqs[r1].pc = "body"
        /\ reqs[r2].view \in {"login", "logout"}
        /\ reqs[r2].pc \in {"line19", "line20", "line36", "line38"}
        /\ ~AllOrNone(reqs[r2].session)

----------------------------------------------------------------------------
(* The specification of tenant isolation: devices of both Organizations and   *)
(* of none, with alerts and measurements, read on a session of either tenant. *)

InitIsolation ==
    /\ InitTenants
    /\ devices = EmptyDict
    /\ nextId = [organization |-> 3, device |-> 1, alert |-> 1, measurement |-> 1]

NextIsolation ==
    \/ \E o \in DOMAIN organizations \cup {NULL} : AdminAddDevice(o, 1, 1)
    \/ /\ Len(alertRows) < MaxIsolationAlerts
       /\ \E d \in DOMAIN devices : AddAlert(d, "HIGH_CONSUMPTION")
    \/ \E d \in DOMAIN devices : AddMeasurement(d)
    \/ dashboard
    \/ devices_by_category
    \/ devices_by_zone
    \/ alerts(NoPage)
    \/ measurements(NoPage)
    \/ \E category \in {"", "HVAC"} : devices_list(category)

SpecIsolation == InitIsolation /\ [][NextIsolation]_vars

\* The Devices whose organization is T, and the Alert and Measurement ids of
\* those Devices.
OwnDevices(T) == {d \in DOMAIN devices : devices[d].organization_id = T}
OwnAlertIds(T) == {alertRows[i].id : i \in {j \in DOMAIN alertRows :
                                               alertRows[j].device \in OwnDevices(T)}}
OwnMeasurementIds(T) == {measurementRows[i].id : i \in {j \in DOMAIN measurementRows :
                                               measurementRows[j].device \in OwnDevices(T)}}

\* Every id of the sequence is in the set.
AllIn(ids, S) == \A i \in DOMAIN ids : ids[i] \in S

\* The dict counts, under each of its keys, exactly the members of S with
\* that key, and has no other key.
CountsOnly(counts, S, key) ==
    /\ DOMAIN counts = {key[x] : x \in S}
    /\ \A k \in DOMAIN counts : counts[k] = Cardinality({x \in S : key[x] = k})

\* C11: whatever the dashboard, devices_by_category, devices_by_zone, alerts,
\* measurements and devices_list show or count for tenant T is a Device of T
\* or an Alert or Measurement of a Device of T; the Devices of the other
\* Organization and of no Organization, and their rows, are neither shown nor
\* counted.
C11_TenantIsolation ==
    (resp.kind = "render" /\ resp.tenant # NULL) =>
        LET T == resp.tenant
            own == OwnDevices(T)
            byCategory == [d \in own |-> CategoryName[devices[d].category]]
            byZone == [d \in own |-> ZoneName[devices[d].zone]]
            mineA == {i \in DOMAIN alertRows : alertRows[i].device \in own}
            byType == [i \in mineA |-> Upper(alertRows[i].alert_type)]
        IN  /\ resp.view = "dashboard" =>
                /\ CountsOnly(resp.data.dispositivos_por_categoria, own, byCategory)
                /\ CountsOnly(resp.data.dispositivos_por_zona, own, byZone)
                /\ CountsOnly(resp.data.alertas_por_severidad, mineA, byType)
                /\ AllIn(resp.data.alertas_recientes, OwnAlertIds(T))
                /\ AllIn(resp.data.ultimas_mediciones, OwnMeasurementIds(T))
            /\ resp.view = "devices_by_category" => CountsOnly(resp.data, own, byCategory)
            /\ resp.view = "devices_by_zone" => CountsOnly(resp.data, own, byZone)
            /\ resp.view = "alerts" => AllIn(resp.data.items, OwnAlertIds(T))
            /\ resp.view = "measurements" =>
                /\ AllIn(resp.data.items, OwnMeasurementIds(T))
                /\ AllIn(resp.data.ultimas_mediciones, OwnMeasurementIds(T))
            /\ resp.view = "devices_list" =>
                /\ resp.data.dispositivos \subseteq own
                /\ resp.data.categorias = {byCategory[d] : d \in own}

\* A owns D1 and B owns D2, both in category "HVAC", D2 has an alert, and the
\* dashboard of one of them counts {"HVAC": 1} and lists no alert.
C11_Witness ==
    /\ resp.view = "dashboard"
    /\ resp.kind = "render"
    /\ \E d1, d2 \in DOMAIN devices :
          /\ devices[d1].organization_id = resp.tenant
          /\ devices[d2].organization_id \in DOMAIN organizations \ {resp.tenant}
          /\ CategoryName[devices[d1].category] = "HVAC"
          /\ CategoryName[devices[d2].category] = "HVAC"
          /\ \E i \in DOMAIN alertRows : alertRows[i].device = d2
    /\ resp.data.dispositivos_por_categoria = [k \in {"HVAC"} |-> 1]
    /\ resp.data.alertas_recientes = <<>>

----------------------------------------------------------------------------
(* Properties of the session's three keys over logins and logouts (Spec) *)

\* The three keys of session s, as a dictionary.
LoginKeys(s) == [k \in SessionKeys \cap DOMAIN s |-> s[k]]

\* The three keys of s are those of a login as Organization o, whose name is n.
LoggedInAs(s, o, n) ==
    LoginKeys(s) = [k \in SessionKeys |->
                       CASE k = "organization_id" -> o
                         [] k = "organization_name" -> n
                         [] OTHER -> TRUE]

\* The step is a login_view POST whose email is that of Organization o and
\* whose password is the one o's stored hash was made from.
VerifiedLoginOf(o) ==
    /\ resp'.view = "login"
    /\ resp'.request.method = "POST"
    /\ o \in DOMAIN organizations
    /\ organizations[o].email = resp'.request.email
    /\ organizations[o].password
           = make_password(resp'.request.password, organizations[o].password[2])

\* is_logged_in = True comes with organization_id and organization_name, and
\* the name is that of the Organization with that id while the row exists.
SessionConsistent(s) ==
    HasLogin(s) =>
        /\ SessionKeys \subseteq DOMAIN s
        /\ s["organization_id"] \in DOMAIN organizations
              => s["organization_name"] = organizations[s["organization_id"]].name

\* C12: a session with is_logged_in = True holds organization_id and
\* organization_name, the id and the name of one Organization; a login_view
\* POST with Organization o's email and password rewrites all three keys to
\* o's, whatever they were, and no other step changes them other than by
\* removing them, so they are those of the most recent successful login.
C12_SessionConsistency ==
    /\ []SessionConsistent(session)
    /\ [][ /\ \A o \in DOMAIN organizations :
                 VerifiedLoginOf(o) => LoggedInAs(session', o, organizations[o].name)
           /\ (\A o \in DOMAIN organizations : ~VerifiedLoginOf(o))
                 => \/ LoginKeys(session') = LoginKeys(session)
                    \/ /\ LoginKeys(session') = EmptyDict
                       /\ resp'.view \in {"logout", "dashboard_logout", "admin"} ]_vars

\* A login as an Organization other than the first registered, on a session
\* that holds a django.contrib.auth key too.
C12_Witness ==
    /\ resp.view = "login"
    /\ resp.kind = "redirect"
    /\ Cardinality(DOMAIN organizations) = 2
    /\ \E o \in DOMAIN organizations :
          /\ o # 1
          /\ organizations[o].email = resp.request.email
          /\ LoggedInAs(session, o, organizations[o].name)
    /\ AuthKey \in DOMAIN session

\* The step is a login_view request that verifies no Organization's
\* credentials: a GET, or a POST with an unknown email or a wrong password.
FailedOrGetLogin ==
    /\ resp'.view = "login"
    /\ \A o \in DOMAIN organizations : ~VerifiedLoginOf(o)

\* C13: on a session logged in as Organization A, a login_view GET and a
\* login_view POST that fails (unknown email, or a known email, A's or
\* another Organization's, with a wrong password) re-render the login page
\* and leave the three keys as they were (the GET, every session key); the
\* protected request that follows is answered for tenant A.
C13_FailedLoginKeepsSession ==
    [][ /\ (HasLogin(session) /\ FailedOrGetLogin)
              => /\ LoginKeys(session') = LoginKeys(session)
                 /\ resp'.request.method = "GET" => session' = session
                 /\ resp'.kind = "render"
                 /\ resp'.target = "login.html"
        /\ (/\ resp.view = "login"
            /\ resp.kind = "render"
            /\ HasLogin(session)
            /\ session["organization_id"] \in DOMAIN organizations
            /\ resp'.view \in ProtectedViews)
              => /\ resp'.tenant = session["organization_id"]
                 /\ resp'.kind # "redirect"
                 /\ session' = session ]_vars

\* On a session logged in as one Organization, a POST with the other
\* Organization's email and a wrong password has been refused.
C13_Witness ==
    /\ resp.view = "login"
    /\ resp.error = MSG_WRONG_PASSWORD
    /\ HasLogin(session)
    /\ session["organization_id"] \in DOMAIN organizations
    /\ \E o \in DOMAIN organizations \ {session["organization_id"]} :
          organizations[o].email = resp.request.email

====
